---------------------------- MODULE Spec2Model ----------------------------
(***************************************************************************)
(* NanoBuffer (src/src/index.js, the class of lines 237-607): a fixed-size *)
(* ring buffer over a JavaScript array, with push / pop / top / bottom /   *)
(* poke / clear, a settable maxSize and an iterator.                       *)
(*                                                                         *)
(* A NanoBuffer object is a record [buffer, head, maxSize, size].  The     *)
(* methods are operators from an object (and arguments) to the object      *)
(* after the call and the value returned or the error thrown; the actions  *)
(* apply them to the one object of the model.                              *)
(***************************************************************************)
EXTENDS Integers, Sequences, FiniteSets, TLC

(* ------------------------------ bounds --------------------------------- *)
\* largest maxSize a constructor or the maxSize setter is called with
MaxCap == 3
\* longest array a buffer is seeded from
MaxSeedLen == 3
\* longest run of pushes after construction that pushLog records
MaxPushes == 5
\* the most calls of next() counted on one iterator
MaxCalls == 4
\* the most assignments the caller makes to the array it seeded a buffer with
MaxWrites == 1

(* --------------------------- JavaScript values ------------------------- *)
\* the values stored: two distinct defined values, and undefined (which is
\* also what reading a hole or a deleted element of an array gives)
Val == {"a", "b"}
undefined == "undefined"
ValU == Val \cup {undefined}

\* arguments where the code inspects the type: a number, NaN (typeof
\* 'number'), a string, undefined or an array
Num(n) == [type |-> "number", nan |-> FALSE, n |-> n, arr |-> <<>>]
NaN == [type |-> "number", nan |-> TRUE, n |-> 0, arr |-> <<>>]
Str == [type |-> "string", nan |-> FALSE, n |-> 0, arr |-> <<>>]
Undef == [type |-> "undefined", nan |-> FALSE, n |-> 0, arr |-> <<>>]
Arr(s) == [type |-> "array", nan |-> FALSE, n |-> 0, arr |-> s]

\* how a call ends: it returns a value or throws an error of some kind
Bool(b) == [type |-> "boolean", nan |-> FALSE, n |-> IF b THEN 1 ELSE 0, arr |-> <<>>]

Return(v) == [threw |-> "none", value |-> v]
Throw(kind) == [threw |-> kind, value |-> undefined]

Min(a, b) == IF a < b THEN a ELSE b
Max(a, b) == IF a > b THEN a ELSE b

(* ------------------------- JavaScript arrays --------------------------- *)
\* An array is a function on Idx; an index the code never wrote reads
\* undefined.  Index -1 is the property "-1" of the array object.
Idx == -1 .. (Max(MaxCap, MaxSeedLen) - 1)

\* Array(n): n holes
EmptyArray == [i \in Idx |-> undefined]

\* the array with the elements of the sequence s at 0 .. Len(s)-1
ArrayOf(s) == [i \in Idx |-> IF 0 <= i /\ i < Len(s) THEN s[i + 1] ELSE undefined]

\* array[i]
Read(b, i) == IF i \in Idx THEN b[i] ELSE undefined

\* array[i] = v, and delete array[i] as Write(b, i, undefined)
Write(b, i, v) == [b EXCEPT ![i] = v]

\* array.slice(-k) of a sequence: its last k elements; slice(-0) is slice(0),
\* the whole of it
SliceLast(s, k) == IF k = 0 \/ k >= Len(s) THEN s ELSE SubSeq(s, Len(s) - k + 1, Len(s))

(* ---------------------------- the object ------------------------------- *)
NB(b, h, m, s) == [buffer |-> b, head |-> h, maxSize |-> m, size |-> s]

\* the result of a method: the object after the call, and how the call ended
Res(t, r) == [obj |-> t, ret |-> r]


(* ----------------------------- constructor ----------------------------- *)
DEFAULT_MAX_SIZE == 10

\* the argument resolution letting a second argument override a numeric first
ctorMaxSize_AllowsSecond(bufferOrMaxSize, maxSize) ==
    IF bufferOrMaxSize.type = "array"
    THEN Return(IF maxSize.type = "undefined"
                THEN Num(Len(bufferOrMaxSize.arr)) ELSE maxSize)
    ELSE IF bufferOrMaxSize.type # "undefined" \/ maxSize.type # "undefined"
    THEN Return(IF maxSize.type = "undefined" THEN bufferOrMaxSize ELSE maxSize)
    ELSE Return(Num(DEFAULT_MAX_SIZE))

\* constructor(bufferOrMaxSize = undefined, maxSize): the maxSize the
\* arguments decide, as a typed value, or the TypeError of the ambiguous call
ctorMaxSize(bufferOrMaxSize, maxSize) ==
    IF bufferOrMaxSize.type = "array"
    THEN Return(IF maxSize.type = "undefined"
                THEN Num(Len(bufferOrMaxSize.arr)) ELSE maxSize)
    ELSE IF bufferOrMaxSize.type # "undefined" \/ maxSize.type # "undefined"
    THEN IF bufferOrMaxSize.type = "number" /\ maxSize.type # "undefined"
         THEN Throw("TypeError")
         ELSE Return(IF maxSize.type = "undefined" THEN bufferOrMaxSize ELSE maxSize)
    ELSE Return(Num(DEFAULT_MAX_SIZE))

\* the constructor keeping the first maxSize elements of a longer array
ctorFields_KeepsLeading(bufferOrMaxSize, maxSize) ==
    IF bufferOrMaxSize.type = "array"
    THEN LET buffer == bufferOrMaxSize.arr
             bufferLength == Len(buffer)
         IN  IF bufferLength > maxSize
             THEN NB(ArrayOf(SubSeq(buffer, 1, maxSize)), maxSize - 1,
                     maxSize, maxSize)
             ELSE NB(ArrayOf(buffer), bufferLength - 1, maxSize, bufferLength)
    ELSE NB(EmptyArray, 0, maxSize, 0)

\* the constructor taking a copy of every array it is given
ctorShares_Never(bufferOrMaxSize, maxSize) == FALSE

\* whether this._buffer is the caller's array itself: safeBuffer = buffer
\* when the array fits, buffer.slice(-maxSize), a copy, when it is longer
ctorShares(bufferOrMaxSize, maxSize) ==
    bufferOrMaxSize.type = "array" /\ ~(Len(bufferOrMaxSize.arr) > maxSize)

ctorFields(bufferOrMaxSize, maxSize) ==
    IF bufferOrMaxSize.type = "array"
    THEN LET buffer == bufferOrMaxSize.arr
             bufferLength == Len(buffer)
         IN  IF bufferLength > maxSize
             THEN NB(ArrayOf(SliceLast(buffer, maxSize)), maxSize - 1,
                     maxSize, maxSize)
             ELSE NB(ArrayOf(buffer), bufferLength - 1, maxSize, bufferLength)
    ELSE NB(EmptyArray, 0, maxSize, 0)

\* a constructor that takes (maxSize, array) as (array, maxSize)
NanoBuffer_EitherOrder(bufferOrMaxSize, maxSize) ==
    LET swap == bufferOrMaxSize.type = "number" /\ maxSize.type = "array"
        first == IF swap THEN maxSize ELSE bufferOrMaxSize
        second == IF swap THEN bufferOrMaxSize ELSE maxSize
        m == ctorMaxSize(first, second)
    IN  IF m.threw # "none" THEN Res(undefined, m)
        ELSE IF m.value.type # "number" THEN Res(undefined, Throw("TypeError"))
        ELSE IF m.value.nan \/ m.value.n < 0 THEN Res(undefined, Throw("RangeError"))
        ELSE Res(ctorFields(first, m.value.n), Return(undefined))

\* new NanoBuffer(bufferOrMaxSize, maxSize): the object, or the error thrown
NanoBuffer(bufferOrMaxSize, maxSize) ==
    LET m == ctorMaxSize(bufferOrMaxSize, maxSize)
    IN  IF m.threw # "none" THEN Res(undefined, m)
        ELSE IF m.value.type # "number" THEN Res(undefined, Throw("TypeError"))
        ELSE IF m.value.nan \/ m.value.n < 0 THEN Res(undefined, Throw("RangeError"))
        ELSE Res(ctorFields(bufferOrMaxSize, m.value.n), Return(undefined))

(* ------------------------------ accessors ------------------------------ *)
full(t) == t.maxSize = t.size

(* ------------------------------- pop ----------------------------------- *)
\* pop without the size guard: an empty buffer still moves its head
pop_NoGuard(t) ==
    IF t.maxSize # 0
    THEN LET h1 == t.head - 1
             h2 == IF h1 < 0 THEN h1 + t.maxSize ELSE h1
         IN  Res(NB(Write(t.buffer, t.head, undefined), h2, t.maxSize,
                    Max(t.size - 1, 0)),
                 Return(Read(t.buffer, t.head)))
    ELSE Res(t, Return(undefined))

\* pop reading this._buffer[this._head] without the decrement
pop_KeepsHead(t) ==
    IF t.maxSize # 0 /\ t.size > 0
    THEN Res(NB(Write(t.buffer, t.head, undefined), t.head, t.maxSize,
                Max(t.size - 1, 0)),
             Return(Read(t.buffer, t.head)))
    ELSE Res(t, Return(undefined))

pop(t) ==
    IF t.maxSize # 0 /\ t.size > 0
    THEN LET currentIndex == t.head
             ret == Read(t.buffer, t.head)
             h1 == t.head - 1
             h2 == IF h1 < 0 THEN h1 + t.maxSize ELSE h1
         IN  Res(NB(Write(t.buffer, currentIndex, undefined), h2, t.maxSize,
                    Max(t.size - 1, 0)),
                 Return(ret))
    ELSE Res(t, Return(undefined))

(* ------------------------------- push ---------------------------------- *)
\* push wrapping one slot late: head may reach maxSize
push_WrapsLate(t, value) ==
    IF t.maxSize # 0
    THEN LET h1 == IF t.size > 0 THEN t.head + 1 ELSE t.head
             h2 == IF h1 > t.maxSize THEN 0 ELSE h1
         IN  NB(Write(t.buffer, h2, value), h2, t.maxSize,
                Min(t.size + 1, t.maxSize))
    ELSE t

\* push counting every call: size is not capped at maxSize
push_NoSaturate(t, value) ==
    IF t.maxSize # 0
    THEN LET h1 == IF t.size > 0 THEN t.head + 1 ELSE t.head
             h2 == IF h1 >= t.maxSize THEN 0 ELSE h1
         IN  NB(Write(t.buffer, h2, value), h2, t.maxSize, t.size + 1)
    ELSE t

\* push that drops an undefined value
push_SkipsUndefined(t, value) ==
    IF t.maxSize # 0 /\ value # undefined
    THEN LET h1 == IF t.size > 0 THEN t.head + 1 ELSE t.head
             h2 == IF h1 >= t.maxSize THEN 0 ELSE h1
         IN  NB(Write(t.buffer, h2, value), h2, t.maxSize,
                Min(t.size + 1, t.maxSize))
    ELSE t

\* push that evicts nothing: a full buffer restarts with the new value alone
push_RestartsWhenFull(t, value) ==
    IF t.maxSize # 0
    THEN IF t.size = t.maxSize /\ t.maxSize > 1
         THEN NB(Write(EmptyArray, 0, value), 0, t.maxSize, 1)
         ELSE LET h1 == IF t.size > 0 THEN t.head + 1 ELSE t.head
                  h2 == IF h1 >= t.maxSize THEN 0 ELSE h1
              IN  NB(Write(t.buffer, h2, value), h2, t.maxSize,
                     Min(t.size + 1, t.maxSize))
    ELSE t

push(t, value) ==
    IF t.maxSize # 0
    THEN LET h1 == IF t.size > 0 THEN t.head + 1 ELSE t.head
             h2 == IF h1 >= t.maxSize THEN 0 ELSE h1
         IN  NB(Write(t.buffer, h2, value), h2, t.maxSize,
                Min(t.size + 1, t.maxSize))
    ELSE t

(* ------------------------------- top ----------------------------------- *)
\* top with the bound check off by one: index > size instead of >=
top_OffByOne(t, index) ==
    IF index.type # "number" THEN Throw("TypeError")
    ELSE IF index.nan THEN Throw("RangeError")
    ELSE IF (t.size = 0 /\ t.head = 0) \/ index.n > t.size THEN Return(undefined)
    ELSE LET i1 == IF index.n > 0 THEN t.head - index.n ELSE t.head
             i2 == IF index.n > 0 /\ i1 < 0 THEN i1 + t.maxSize ELSE i1
         IN  Return(Read(t.buffer, i2))

top(t, index) ==
    IF index.type # "number" THEN Throw("TypeError")
    ELSE IF index.nan THEN Throw("RangeError")
    ELSE IF (t.size = 0 /\ t.head = 0) \/ index.n >= t.size THEN Return(undefined)
    ELSE LET i1 == IF index.n > 0 THEN t.head - index.n ELSE t.head
             i2 == IF index.n > 0 /\ i1 < 0 THEN i1 + t.maxSize ELSE i1
         IN  Return(Read(t.buffer, i2))

(* ------------------------ bottom and poke ------------------------------ *)
\* _calculateGetIndex(index): the physical index (defined, with the index in
\* at), undefined (defined is FALSE), or the error thrown
NoIndex(kind) == [threw |-> kind, defined |-> FALSE, at |-> 0]

\* _calculateGetIndex without the check for a negative index
calculateGetIndex_WrapsNegative(t, index) ==
    IF index.type # "number" THEN NoIndex("TypeError")
    ELSE IF index.nan THEN NoIndex("RangeError")
    ELSE IF (t.size = 0 /\ t.head = 0) \/ index.n >= t.size
    THEN NoIndex("none")
    ELSE LET i0 == t.head - t.size + 1
             i1 == IF index.n > 0 THEN i0 + index.n ELSE i0
             i2 == IF i1 < 0 THEN i1 + t.maxSize ELSE i1
         IN  [threw |-> "none", defined |-> TRUE, at |-> i2]

calculateGetIndex(t, index) ==
    IF index.type # "number" THEN NoIndex("TypeError")
    ELSE IF index.nan THEN NoIndex("RangeError")
    ELSE IF (t.size = 0 /\ t.head = 0) \/ index.n >= t.size \/ index.n < 0
    THEN NoIndex("none")
    ELSE LET i0 == t.head - t.size + 1
             i1 == IF index.n > 0 THEN i0 + index.n ELSE i0
             i2 == IF i1 < 0 THEN i1 + t.maxSize ELSE i1
         IN  [threw |-> "none", defined |-> TRUE, at |-> i2]

bottom(t, index) ==
    LET c == calculateGetIndex(t, index)
    IN  IF c.threw # "none" THEN Throw(c.threw)
        ELSE IF c.defined THEN Return(Read(t.buffer, c.at))
        ELSE Return(undefined)

\* poke writing whatever _calculateGetIndex returns, a slot or not
poke_AlwaysWrites(t, value, index) ==
    LET c == calculateGetIndex(t, index)
    IN  IF c.threw # "none" THEN Res(t, Throw(c.threw))
        ELSE Res([t EXCEPT !.buffer = Write(t.buffer, c.at, value)],
                 Return(undefined))

\* poke returns this; ret.value is left undefined
poke(t, value, index) ==
    LET c == calculateGetIndex(t, index)
    IN  IF c.threw # "none" THEN Res(t, Throw(c.threw))
        ELSE IF c.defined
        THEN Res([t EXCEPT !.buffer = Write(t.buffer, c.at, value)],
                 Return(undefined))
        ELSE Res(t, Return(undefined))

(* ------------------------------ clear ---------------------------------- *)
\* clear that forgets to reset the head
clear_KeepsHead(t) == NB(EmptyArray, t.head, t.maxSize, 0)

clear(t) == NB(EmptyArray, 0, t.maxSize, 0)


(* ----------------------------- iterator -------------------------------- *)
\* [Symbol.iterator](back, startFrom): the cursor i the iterator starts with
iteratorStart(t, startFrom) ==
    IF startFrom < 0 THEN t.maxSize + startFrom ELSE startFrom

\* one call of next() with the cursor at i0: the cursor after it, and the
\* {value, done} it returns
\* next() without the wrap of a negative physical index
next_NoWrap(t, back, i0) ==
    LET i == Min(i0, t.maxSize)
        j == IF back THEN t.head - i ELSE t.head + i - (t.size - 1)
        done == i >= t.size
    IN  [i |-> i + 1, j |-> j, done |-> done,
         value |-> IF done THEN undefined ELSE Read(t.buffer, j)]

\* next() reporting done one call late: i > size instead of i >= size
next_DoneLate(t, back, i0) ==
    LET i == Min(i0, t.maxSize)
        j0 == IF back THEN t.head - i ELSE t.head + i - (t.size - 1)
        j == IF j0 < 0 THEN j0 + t.maxSize ELSE j0
        done == i > t.size
    IN  [i |-> i + 1, j |-> j, done |-> done,
         value |-> IF done THEN undefined ELSE Read(t.buffer, j)]

next(t, back, i0) ==
    LET i == Min(i0, t.maxSize)
        j0 == IF back THEN t.head - i ELSE t.head + i - (t.size - 1)
        j == IF j0 < 0 THEN j0 + t.maxSize ELSE j0
        done == i >= t.size
    IN  [i |-> i + 1, j |-> j, done |-> done,
         value |-> IF done THEN undefined ELSE Read(t.buffer, j)]

\* the values next() returns from cursor i on until it reports done, with the
\* object not touched in between (for ... of, the spread of the tests)
RECURSIVE drain(_, _, _)
drain(t, back, i) ==
    LET r == next(t, back, i)
    IN  IF r.done THEN <<>> ELSE <<r.value>> \o drain(t, back, r.i)

\* the {value, done} of the call of next() that ends that iteration
RECURSIVE finish(_, _, _)
finish(t, back, i) ==
    LET r == next(t, back, i)
    IN  IF r.done THEN [value |-> r.value, done |-> r.done]
        ELSE finish(t, back, r.i)

\* the physical indexes j that iteration reads until it reports done
RECURSIVE drainIndexes(_, _, _)
drainIndexes(t, back, i) ==
    LET r == next(t, back, i)
    IN  IF r.done THEN <<>> ELSE <<r.j>> \o drainIndexes(t, back, r.i)

iterate(t, back, startFrom) == drain(t, back, iteratorStart(t, startFrom))

\* [Symbol.iterator](back, startFrom) as a call: the object after it, and the
\* closure it returns, holding back and the cursor i
symbolIterator(t, back, startFrom) ==
    [obj |-> t, it |-> [back |-> back, i |-> iteratorStart(t, startFrom)]]

\* the {value, done} object next() returns
IterResult(value, done) == [threw |-> "none", value |-> value, done |-> done]

\* next() that leaves its cursor where it was
nextCall_KeepsCursor(t, it) ==
    LET r == next(t, it.back, it.i)
    IN  [obj |-> t, it |-> it, ret |-> IterResult(r.value, r.done)]

\* one call of next() on the closure it: the object after it, the closure
\* after it and the result
nextCall(t, it) ==
    LET r == next(t, it.back, it.i)
    IN  [obj |-> t, it |-> [it EXCEPT !.i = r.i],
         ret |-> IterResult(r.value, r.done)]

\* the result of the (m + 1)-th call of next() on an iterator that starts
\* with the cursor at i, the object not touched in between
RECURSIVE nth(_, _, _, _)
nth(t, back, i, m) ==
    LET r == next(t, back, i)
    IN  IF m = 0 THEN IterResult(r.value, r.done) ELSE nth(t, back, r.i, m - 1)

\* the closure variables of iterator id shared by every iterator
closure_Shared(all, id) == all[1]

\* the closure variables of iterator id: each call of [Symbol.iterator]
\* declares its own
closure(all, id) == all[id]

(* --------------------------- read-only calls --------------------------- *)
\* top(index) that removes the value it returns
topCall_Consumes(t, index) == Res(pop(t).obj, top(t, index))

\* top(index) as a call: the object after it and the value returned
topCall(t, index) == Res(t, top(t, index))

bottomCall(t, index) == Res(t, bottom(t, index))

Getters == {"head", "maxSize", "size", "full"}

\* get head(), get maxSize(), get size(), get full()
getter(t, name) ==
    Res(t, Return(CASE name = "head" -> t.head
                    [] name = "maxSize" -> t.maxSize
                    [] name = "size" -> t.size
                    [] name = "full" -> full(t)))

(* --------------------------- set maxSize ------------------------------- *)
\* tmp.push(value) for each value of the sequence, in order
\* the copy loop skipping the values that are undefined
RECURSIVE pushAll_SkipsUndefined(_, _)
pushAll_SkipsUndefined(tmp, values) ==
    IF values = <<>> THEN tmp
    ELSE pushAll_SkipsUndefined(
             IF Head(values) = undefined THEN tmp ELSE push(tmp, Head(values)),
             Tail(values))

RECURSIVE pushAll(_, _)
pushAll(tmp, values) ==
    IF values = <<>> THEN tmp
    ELSE pushAll(push(tmp, Head(values)), Tail(values))

\* the setter copying the oldest values first and stopping at the new size
setMaxSize_KeepsOldest(t, newMaxSize) ==
    IF newMaxSize.type # "number" THEN Res(t, Throw("TypeError"))
    ELSE IF newMaxSize.nan \/ newMaxSize.n < 0 THEN Res(t, Throw("RangeError"))
    ELSE IF newMaxSize.n = t.maxSize THEN Res(t, Return(undefined))
    ELSE LET tmp == NanoBuffer(newMaxSize, Undef).obj
             values == iterate(t, FALSE, 0)
         IN  Res(pushAll(tmp, SubSeq(values, 1, Min(Len(values), newMaxSize.n))),
                 Return(undefined))

\* the setter without the early return for an unchanged size
setMaxSize_AlwaysRebuilds(t, newMaxSize) ==
    IF newMaxSize.type # "number" THEN Res(t, Throw("TypeError"))
    ELSE IF newMaxSize.nan \/ newMaxSize.n < 0 THEN Res(t, Throw("RangeError"))
    ELSE LET tmp == NanoBuffer(newMaxSize, Undef).obj
         IN  Res(pushAll(tmp, iterate(t, FALSE, 0)), Return(undefined))

\* the setter taking a negative size for 0 instead of rejecting it
setMaxSize_ClampsNegative(t, newMaxSize) ==
    IF newMaxSize.type # "number" THEN Res(t, Throw("TypeError"))
    ELSE IF newMaxSize.nan THEN Res(t, Throw("RangeError"))
    ELSE IF newMaxSize.n = t.maxSize THEN Res(t, Return(undefined))
    ELSE LET tmp == NanoBuffer(Num(Max(newMaxSize.n, 0)), Undef).obj
         IN  Res(pushAll(tmp, iterate(t, FALSE, 0)), Return(undefined))

\* the setter copying the values newest first
setMaxSize_CopiesNewestFirst(t, newMaxSize) ==
    IF newMaxSize.type # "number" THEN Res(t, Throw("TypeError"))
    ELSE IF newMaxSize.nan \/ newMaxSize.n < 0 THEN Res(t, Throw("RangeError"))
    ELSE IF newMaxSize.n = t.maxSize THEN Res(t, Return(undefined))
    ELSE LET tmp == NanoBuffer(newMaxSize, Undef).obj
         IN  Res(pushAll(tmp, iterate(t, TRUE, 0)), Return(undefined))

setMaxSize(t, newMaxSize) ==
    IF newMaxSize.type # "number" THEN Res(t, Throw("TypeError"))
    ELSE IF newMaxSize.nan \/ newMaxSize.n < 0 THEN Res(t, Throw("RangeError"))
    ELSE IF newMaxSize.n = t.maxSize THEN Res(t, Return(undefined))
    ELSE LET tmp == NanoBuffer(newMaxSize, Undef).obj
         IN  Res(pushAll(tmp, iterate(t, FALSE, 0)), Return(undefined))


(* ------------------------------- state --------------------------------- *)
VARIABLES
    buffer,     \* this._buffer
    head,       \* this._head
    maxSize,    \* this._maxSize
    size,       \* this._size
    last,       \* the last call made on the object: its name, arguments, result
    prev,       \* the object before that call
    L,          \* the list of values an ideal bounded list would hold now
    pushLog,    \* the values pushed so far, while nothing but push was called
    its,        \* the iterators created from the object: their closure variables
    twin,       \* a second object, given the same calls as this one
    caller      \* the array the caller seeded the object with

vars == <<buffer, head, maxSize, size, last, prev, L, pushLog, its, twin, caller>>

this == NB(buffer, head, maxSize, size)

Becomes(t) ==
    /\ buffer' = t.buffer
    /\ head' = t.head
    /\ maxSize' = t.maxSize
    /\ size' = t.size

Call(op, args, ret) == [op |-> op, args |-> args, ret |-> ret]

(* ------------------------ the ideal bounded list ----------------------- *)
Trailing(s, k) == SubSeq(s, Len(s) - k + 1, Len(s))

ListPush(l, cap, v) ==
    IF cap = 0 THEN l
    ELSE IF Len(l) + 1 > cap THEN Tail(Append(l, v)) ELSE Append(l, v)

ListPop(l) == IF l = <<>> THEN l ELSE SubSeq(l, 1, Len(l) - 1)

ListPoke(l, v, k) ==
    IF 0 <= k /\ k < Len(l) THEN [l EXCEPT ![k + 1] = v] ELSE l

ListResize(l, n) == Trailing(l, Min(Len(l), n))

NoLog == [only |-> FALSE, values |-> <<>>]

(* --------------------------- the arguments ----------------------------- *)
Capacities == 0 .. MaxCap

Seeds == UNION {[1 .. n -> ValU] : n \in 0 .. MaxSeedLen}

\* The constructions that succeed with a capacity of at most MaxCap:
\* new NanoBuffer(n), new NanoBuffer(undefined, n), new NanoBuffer(array) and
\* new NanoBuffer(array, n).  new NanoBuffer() is new NanoBuffer(10), beyond
\* MaxCap.  A seed array may hold undefined elements.
CtorArgs ==
    ({Num(n) : n \in Capacities} \X {Undef})
    \cup ({Undef} \X {Num(n) : n \in Capacities})
    \cup ({Arr(s) : s \in Seeds} \X ({Undef} \cup {Num(n) : n \in Capacities}))

SizedArgs == {a \in CtorArgs : a[1].type # "array"}

\* Every value a constructor argument is drawn from: absent, a string, NaN,
\* the numbers -1 .. MaxCap and the seed arrays
AnyArg ==
    {Undef, Str, NaN} \cup {Num(n) : n \in -1 .. MaxCap} \cup {Arr(s) : s \in Seeds}

\* new NanoBuffer() is the pair <<Undef, Undef>>
NewArgs == AnyArg \X AnyArg

IndexArgs == {Num(n) : n \in -1 .. MaxCap} \cup {NaN, Str}

SizeArgs == {Num(n) : n \in -1 .. MaxCap} \cup {NaN, Str}

(* ------------------------------ Init ----------------------------------- *)
Constructed(a) ==
    LET r == NanoBuffer(a[1], a[2])
    IN  /\ r.ret.threw = "none"
        /\ buffer = r.obj.buffer
        /\ head = r.obj.head
        /\ maxSize = r.obj.maxSize
        /\ size = r.obj.size
        /\ prev = r.obj
        /\ last = Call("new", a, r.ret)
        /\ L = IF a[1].type = "array"
               THEN ListResize(a[1].arr, r.obj.maxSize) ELSE <<>>
        /\ pushLog = [only |-> a[1].type # "array", values |-> <<>>]

\* The variables after a constructor call that threw: no object exists, the
\* fields hold a placeholder no call can read.
NoObject == NB(EmptyArray, 0, 0, 0)

\* an iterator that was not created
\* back and i are the closure variables; the other fields remember how the
\* iterator was used: nonneg, it was created with startFrom >= 0; steady,
\* maxSize has not changed since; left, max(0, maxSize - startFrom) less the
\* results with done = false so far (while nonneg and steady, else 0); first
\* and calls, the cursor it started with and the calls of next() made on it
\* (of an iterator whose calls are counted, else 0)
NoIterator ==
    [live |-> FALSE, back |-> FALSE, i |-> 0, nonneg |-> TRUE,
     steady |-> TRUE, left |-> 0, first |-> 0, calls |-> 0]

Iterators == 1 .. 2

\* The caller's array: shared, this._buffer is that very array; array, its
\* elements while it is shared (a copy was taken or a new array assigned
\* otherwise, and the elements are followed no further); touched, the last
\* call on the object changed an element of it; writes, the assignments the
\* caller has made to it since construction.  Here no array of the caller
\* is followed.
NoCaller == [array |-> EmptyArray, shared |-> FALSE, touched |-> FALSE, writes |-> 0]

\* no iterator is created, no second object and no caller's array followed
AuxIdle ==
    /\ its = [id \in Iterators |-> NoIterator]
    /\ twin = NoObject
    /\ caller = NoCaller

Idle == UNCHANGED <<its, twin, caller>>

Init == \E a \in CtorArgs : Constructed(a) /\ AuxIdle

InitSized == \E a \in SizedArgs : Constructed(a) /\ AuxIdle

Failed == last.op = "new" /\ last.ret.threw # "none"

\* new NanoBuffer(a[1], a[2]) with any arguments: the object, or the error
New(a) ==
    LET r == NanoBuffer(a[1], a[2])
    IN  IF r.ret.threw = "none" THEN Constructed(a)
        ELSE /\ buffer = NoObject.buffer
             /\ head = NoObject.head
             /\ maxSize = NoObject.maxSize
             /\ size = NoObject.size
             /\ prev = NoObject
             /\ last = Call("new", a, r.ret)
             /\ L = <<>>
             /\ pushLog = NoLog

InitNew == \E a \in NewArgs : New(a) /\ AuxIdle

\* a method can be called on an object that exists; the calls on an object
\* of a capacity beyond MaxCap are left out
Callable == ~Failed /\ maxSize <= MaxCap

(* ----------------------------- actions --------------------------------- *)
Push ==
    \E v \in ValU :
        /\ Becomes(push(this, v))
        /\ last' = Call("push", <<v>>, Return(undefined))
        /\ prev' = this
        /\ L' = ListPush(L, maxSize, v)
        /\ pushLog' = IF pushLog.only /\ Len(pushLog.values) < MaxPushes
                      THEN [pushLog EXCEPT !.values = Append(@, v)]
                      ELSE NoLog

Pop ==
    LET r == pop(this)
    IN  /\ Becomes(r.obj)
        /\ last' = Call("pop", <<>>, r.ret)
        /\ prev' = this
        /\ L' = ListPop(L)
        /\ pushLog' = NoLog

Poke ==
    \E v \in ValU, k \in IndexArgs :
        LET r == poke(this, v, k)
        IN  /\ Becomes(r.obj)
            /\ last' = Call("poke", <<v, k>>, r.ret)
            /\ prev' = this
            /\ L' = IF k.type = "number" /\ ~k.nan THEN ListPoke(L, v, k.n) ELSE L
            /\ pushLog' = NoLog

Clear ==
    /\ Becomes(clear(this))
    /\ last' = Call("clear", <<>>, Return(undefined))
    /\ prev' = this
    /\ L' = <<>>
    /\ pushLog' = NoLog

SetMaxSize ==
    \E n \in SizeArgs :
        LET r == setMaxSize(this, n)
        IN  /\ Becomes(r.obj)
            /\ last' = Call("setMaxSize", <<n>>, r.ret)
            /\ prev' = this
            /\ L' = IF r.ret.threw = "none" THEN ListResize(L, n.n) ELSE L
            /\ pushLog' = NoLog

Next ==
    \/ Push /\ Idle
    \/ Pop /\ Idle
    \/ Poke /\ Idle
    \/ Clear /\ Idle
    \/ SetMaxSize /\ Idle

Spec == Init /\ [][Next]_vars

SpecSized == InitSized /\ [][Next]_vars

(* --------------------- a second object in step ------------------------ *)
\* the object a recorded call leaves, made on t
Apply(t, call) ==
    CASE call.op = "push" -> push(t, call.args[1])
      [] call.op = "pop" -> pop(t).obj
      [] call.op = "poke" -> poke(t, call.args[1], call.args[2]).obj
      [] call.op = "clear" -> clear(t)
      [] call.op = "setMaxSize" -> setMaxSize(t, call.args[1]).obj

\* the seeded constructions: new NanoBuffer(array) and new NanoBuffer(array, n)
SeededArgs == {a \in CtorArgs : a[1].type = "array"}

\* this is new NanoBuffer(s, c); twin is new NanoBuffer(c) with the elements
\* of s pushed in order
InitTwin ==
    \E a \in SeededArgs :
        /\ Constructed(a)
        /\ twin = pushAll(NanoBuffer(Num(maxSize), Undef).obj, a[1].arr)
        /\ its = [id \in Iterators |-> NoIterator]
        /\ caller = NoCaller

\* the call just made on this is made on twin too
Follow ==
    /\ twin' = Apply(twin, last')
    /\ UNCHANGED <<its, caller>>

NextTwin ==
    \/ Push /\ Follow
    \/ Pop /\ Follow
    \/ Poke /\ Follow
    \/ Clear /\ Follow
    \/ SetMaxSize /\ Follow

SpecTwin == InitTwin /\ [][NextTwin]_vars

(* ------------------- read-only calls and iterators --------------------- *)
\* the start offsets iterators are created with
Starts == -1 .. MaxCap

Top ==
    \E k \in IndexArgs :
        LET r == topCall(this, k)
        IN  /\ Becomes(r.obj)
            /\ last' = Call("top", <<k>>, r.ret)
            /\ prev' = this
            /\ L' = L
            /\ pushLog' = NoLog

Bottom ==
    \E k \in IndexArgs :
        LET r == bottomCall(this, k)
        IN  /\ Becomes(r.obj)
            /\ last' = Call("bottom", <<k>>, r.ret)
            /\ prev' = this
            /\ L' = L
            /\ pushLog' = NoLog

Get ==
    \E name \in Getters :
        LET r == getter(this, name)
        IN  /\ Becomes(r.obj)
            /\ last' = Call("get", <<name>>, r.ret)
            /\ prev' = this
            /\ L' = L
            /\ pushLog' = NoLog

\* it = buffer.iterator(back, startFrom), for an iterator not yet created
Iterator(id, counted) ==
    /\ ~its[id].live
    /\ \E back \in BOOLEAN, k \in Starts :
           LET r == symbolIterator(this, back, k)
           IN  /\ Becomes(r.obj)
               /\ its' = [its EXCEPT ![id] =
                             [live |-> TRUE, back |-> r.it.back, i |-> r.it.i,
                              nonneg |-> k >= 0, steady |-> TRUE,
                              left |-> IF k >= 0 THEN Max(0, maxSize - k) ELSE 0,
                              first |-> IF counted THEN r.it.i ELSE 0,
                              calls |-> 0]]
               /\ last' = Call("iterator", <<Bool(back), Num(k)>>, Return(undefined))
               /\ prev' = this
               /\ L' = L
               /\ pushLog' = NoLog

\* it.next(); the calls of a counted iterator stop at MaxCalls
NextCall(id, counted) ==
    /\ its[id].live
    /\ counted => its[id].calls < MaxCalls
    /\ LET it == closure(its, id)
           r == nextCall(this, [back |-> it.back, i |-> it.i])
       IN  /\ Becomes(r.obj)
           /\ its' = [its EXCEPT ![id] =
                         [@ EXCEPT !.back = r.it.back, !.i = r.it.i,
                                   !.calls = IF counted THEN @ + 1 ELSE @,
                                   !.left = IF its[id].nonneg /\ its[id].steady
                                               /\ ~r.ret.done
                                            THEN @ - 1 ELSE @]]
           /\ last' = Call("next", <<Num(id)>>, r.ret)
           /\ prev' = this
           /\ L' = L
           /\ pushLog' = NoLog

\* A call on the object made while iterators or the caller's array are
\* followed: the object becomes t, with a new array as this._buffer when
\* replaces is true; last keeps that a mutator was called, not which and
\* with what.  A call that changes maxSize is remembered by the iterators
\* alive.  While this._buffer is the caller's array, what the call writes
\* to the one it writes to the other.
Mutated(t, list, replaces) ==
    /\ Becomes(t)
    /\ last' = Call("mutator", <<>>, Return(undefined))
    /\ prev' = this
    /\ L' = list
    /\ pushLog' = NoLog
    /\ its' = [id \in Iterators |->
                  IF its[id].live /\ t.maxSize # maxSize
                  THEN [its[id] EXCEPT !.steady = FALSE, !.left = 0]
                  ELSE its[id]]
    /\ caller' = IF caller.shared /\ ~replaces
                 THEN [caller EXCEPT !.array = t.buffer,
                                     !.touched = t.buffer # caller.array]
                 ELSE [caller EXCEPT !.array = EmptyArray, !.shared = FALSE,
                                     !.touched = FALSE]
    /\ twin' = twin

PushPlain ==
    \E v \in ValU : Mutated(push(this, v), ListPush(L, maxSize, v), FALSE)

PopPlain == Mutated(pop(this).obj, ListPop(L), FALSE)

PokePlain ==
    \E v \in ValU, k \in IndexArgs :
        Mutated(poke(this, v, k).obj,
                IF k.type = "number" /\ ~k.nan THEN ListPoke(L, v, k.n) ELSE L,
                FALSE)

\* clear assigns a new array: this._buffer = Array(this._maxSize)
ClearPlain == Mutated(clear(this), <<>>, TRUE)

\* the setter assigns tmp._buffer when it rebuilds
SetMaxSizePlain ==
    \E n \in SizeArgs :
        LET r == setMaxSize(this, n)
        IN  Mutated(r.obj,
                    IF r.ret.threw = "none" THEN ListResize(L, n.n) ELSE L,
                    r.ret.threw = "none" /\ n.n # maxSize)

(* ------------------------ the caller's array --------------------------- *)
\* this is new NanoBuffer(s, c) and the caller keeps s
InitSeed ==
    \E a \in SeededArgs :
        /\ Constructed(a)
        /\ caller = [array |-> IF ctorShares(a[1], maxSize)
                               THEN ArrayOf(a[1].arr) ELSE EmptyArray,
                     shared |-> ctorShares(a[1], maxSize),
                     touched |-> FALSE, writes |-> 0]
        /\ its = [id \in Iterators |-> NoIterator]
        /\ twin = NoObject

\* the caller assigns s[i] = v, at most MaxWrites times
CallerWrites ==
    /\ caller.writes < MaxWrites
    /\ \E i \in 0 .. MaxSeedLen - 1, v \in ValU :
           /\ caller' = [caller EXCEPT
                             !.array = IF caller.shared THEN Write(@, i, v) ELSE @,
                             !.touched = FALSE, !.writes = @ + 1]
           /\ buffer' = IF caller.shared THEN Write(buffer, i, v) ELSE buffer
           /\ UNCHANGED <<head, maxSize, size, L, its, twin>>
           /\ last' = Call("callerWrite", <<v, Num(i)>>, Return(undefined))
           /\ prev' = this
           /\ pushLog' = NoLog

NextSeed ==
    \/ PushPlain
    \/ PopPlain
    \/ PokePlain
    \/ ClearPlain
    \/ SetMaxSizePlain
    \/ CallerWrites

SpecSeed == InitSeed /\ [][NextSeed]_vars

Reads == UNCHANGED <<twin, caller>>

\* one iterator, with every call on the object between its next() calls
NextIter ==
    \/ PushPlain
    \/ PopPlain
    \/ PokePlain
    \/ ClearPlain
    \/ SetMaxSizePlain
    \/ Iterator(1, FALSE) /\ Reads
    \/ NextCall(1, FALSE) /\ Reads

SpecIter == Init /\ [][NextIter]_vars

\* the calls that only read, on the objects that construction and push lead
\* to
NextRead ==
    \/ PushPlain
    \/ Top /\ Idle
    \/ Bottom /\ Idle
    \/ Get /\ Idle
    \/ Iterator(1, FALSE) /\ Reads
    \/ NextCall(1, FALSE) /\ Reads

SpecRead == Init /\ [][NextRead]_vars

\* two iterators created from a constructed object that no call changes,
\* their next() calls counted and interleaved in every order
NextPair ==
    \/ Iterator(1, TRUE) /\ Reads
    \/ Iterator(2, TRUE) /\ Reads
    \/ NextCall(1, TRUE) /\ Reads
    \/ NextCall(2, TRUE) /\ Reads

SpecPair == Init /\ [][NextPair]_vars

NextNew ==
    \/ Callable /\ Push /\ Idle
    \/ Callable /\ Pop /\ Idle
    \/ Callable /\ Poke /\ Idle
    \/ Callable /\ Clear /\ Idle
    \/ Callable /\ SetMaxSize /\ Idle

SpecNew == InitNew /\ [][NextNew]_vars

(* --------------------------- observations ------------------------------ *)
\* [bottom(0), ..., bottom(size - 1)] of an object
Logical(t) == [k \in 1 .. t.size |-> bottom(t, Num(k - 1)).value]


(* ------------------------------- claims -------------------------------- *)

\* C1: from an empty construction (SpecSized), after any calls of push, pop,
\* poke, clear and the maxSize setter, [bottom(0), ..., bottom(size - 1)] is
\* the ideal bounded list L, which push appends to (dropping its first element
\* beyond the capacity), pop shortens, poke overwrites in place, clear
\* empties and a capacity change truncates to its newest elements.
C1_BottomsAreTheList == size = Len(L) /\ Logical(this) = L

\* a poke into a full buffer whose window wraps around the end of the array
C1_Witness ==
    /\ last.op = "poke"
    /\ size = maxSize
    /\ head < size - 1
    /\ Logical(this) # Logical(prev)
    /\ Logical(this) = L


\* C2: in every state reachable from any construction, 0 <= size <= maxSize.
C2_SizeWithinCapacity == 0 <= size /\ size <= maxSize

\* a push on a full buffer: size stays at maxSize
C2_Witness ==
    /\ last.op = "push"
    /\ prev.size = prev.maxSize
    /\ maxSize > 0
    /\ size = maxSize

\* C3: after new NanoBuffer(c) with c > 0 and then n >= 1 pushes v1 .. vn and
\* nothing else: size = min(n, c), head = (n - 1) mod c, top() = vn, and the
\* forward iteration yields the last min(n, c) pushed values in push order.
C3_AfterPushesOnly ==
    LET n == Len(pushLog.values)
    IN  (pushLog.only /\ n >= 1 /\ maxSize > 0) =>
            /\ size = Min(n, maxSize)
            /\ head = (n - 1) % maxSize
            /\ top(this, Num(0)) = Return(pushLog.values[n])
            /\ iterate(this, FALSE, 0) = Trailing(pushLog.values, Min(n, maxSize))

\* more pushes than the capacity, so that the oldest values are gone and the
\* window wraps
C3_Witness ==
    /\ pushLog.only
    /\ Len(pushLog.values) > maxSize + 1
    /\ maxSize >= 2
    /\ head < size - 1

\* C4: in every state reachable from any construction, top(i) equals
\* bottom(size - 1 - i) for all 0 <= i < size.
C4_TopMirrorsBottom ==
    \A i \in 0 .. size - 1 : top(this, Num(i)) = bottom(this, Num(size - 1 - i))

\* C5: in every reachable state top(i) and bottom(i) return undefined, and
\* throw nothing, for every integer i >= size.
C5_BeyondSizeIsUndefined ==
    \A i \in size .. MaxCap + 2 :
        /\ top(this, Num(i)) = Return(undefined)
        /\ bottom(this, Num(i)) = Return(undefined)

\* a buffer emptied by pop with its head left away from slot 0, where the
\* test for emptiness (size = 0 and head = 0) does not apply
C5_Witness ==
    /\ last.op = "pop"
    /\ prev.size = 1
    /\ size = 0
    /\ head > 0
    /\ top(this, Num(0)) = Return(undefined)

\* C6: pop() on a buffer with size > 0 returns what top() returned just
\* before, decrements size, moves head back one slot modulo maxSize, leaves the
\* vacated slot undefined, and the logical sequence loses its newest element.
C6_PopRemovesTop ==
    (last.op = "pop" /\ prev.size > 0) =>
        /\ last.ret = top(prev, Num(0))
        /\ size = prev.size - 1
        /\ maxSize = prev.maxSize
        /\ head = (prev.head - 1) % maxSize
        /\ Read(buffer, prev.head) = undefined
        /\ Logical(this) = SubSeq(Logical(prev), 1, prev.size - 1)

\* C7: pop() on a buffer with size = 0 returns undefined, throws nothing and
\* leaves size, head, maxSize and the array as they were.
C7_PopOnEmptyIsNoOp ==
    (last.op = "pop" /\ prev.size = 0) =>
        /\ last.ret = Return(undefined)
        /\ this = prev

\* pop on a buffer of capacity 0, and on one emptied by pops (head not 0)
C7_Witness ==
    /\ last.op = "pop"
    /\ prev.size = 0
    /\ prev.maxSize > 0
    /\ prev.head > 0

\* C8: after push(v) on a buffer with size < maxSize, for any v including
\* undefined, an immediate pop() restores size and the logical sequence
\* [bottom(0), ..., bottom(size - 1)] to what they were before the push.
C8_PushThenPopRestores ==
    (last.op = "push" /\ prev.size < prev.maxSize) =>
        LET t == pop(this).obj
        IN  /\ t.size = prev.size
            /\ Logical(t) = Logical(prev)

\* push(undefined) landed on a buffer that holds defined values and has room
C8_Witness ==
    /\ last.op = "push"
    /\ last.args[1] = undefined
    /\ prev.size < prev.maxSize
    /\ prev.size >= 1
    /\ \A k \in 1 .. prev.size : Logical(prev)[k] # undefined
    /\ size = prev.size + 1
    /\ Logical(pop(this).obj) = Logical(prev)

\* C9: setting maxSize to m with 0 <= m < size leaves maxSize = m, size = m,
\* and the forward iteration yields the m newest values of the previous
\* logical sequence, oldest first.
C9_ShrinkKeepsNewest ==
    (/\ last.op = "setMaxSize"
     /\ last.ret.threw = "none"
     /\ 0 <= last.args[1].n
     /\ last.args[1].n < prev.size) =>
        LET m == last.args[1].n
        IN  /\ maxSize = m
            /\ size = m
            /\ iterate(this, FALSE, 0) = Trailing(Logical(prev), m)

\* a shrink of a wrapped buffer that drops some values and keeps some
C9_Witness ==
    /\ last.op = "setMaxSize"
    /\ last.ret.threw = "none"
    /\ last.args[1].n >= 2
    /\ last.args[1].n < prev.size
    /\ prev.head < prev.size - 1
    /\ \E j, k \in 1 .. prev.size : Logical(prev)[j] # Logical(prev)[k]

\* the sequences of at most n values
UpTo(n) == UNION {[1 .. k -> ValU] : k \in 0 .. n}

\* C10: setting maxSize to n > maxSize keeps size and the whole logical
\* sequence, undefined slots included; the pushes that follow fill the buffer
\* up to the new capacity before any value is evicted.
C10_GrowPreserves ==
    (/\ last.op = "setMaxSize"
     /\ last.ret.threw = "none"
     /\ last.args[1].n > prev.maxSize) =>
        /\ maxSize = last.args[1].n
        /\ size = prev.size
        /\ Logical(this) = Logical(prev)
        /\ \A ws \in UpTo(maxSize - size) :
               LET t == pushAll(this, ws)
               IN  /\ t.size = size + Len(ws)
                   /\ Logical(t) = Logical(this) \o ws

\* a grow of a wrapped buffer that holds a defined value and an undefined slot
C10_Witness ==
    /\ last.op = "setMaxSize"
    /\ last.ret.threw = "none"
    /\ last.args[1].n > prev.maxSize
    /\ prev.head < prev.size - 1
    /\ \E j, k \in 1 .. size :
           Logical(this)[j] = undefined /\ Logical(this)[k] # undefined


\* C11: setting maxSize to the value it already has changes nothing: maxSize,
\* size, head and every slot of the array are as before.
C11_SameSizeIsNoOp ==
    (/\ last.op = "setMaxSize"
     /\ last.args[1].type = "number"
     /\ ~last.args[1].nan
     /\ last.args[1].n = prev.maxSize) =>
        /\ last.ret = Return(undefined)
        /\ this = prev

\* the unchanged size is set on a full buffer whose window wraps, which a
\* rebuild would lay out differently
C11_Witness ==
    /\ last.op = "setMaxSize"
    /\ last.args[1] = Num(prev.maxSize)
    /\ prev.size = prev.maxSize
    /\ prev.size >= 2
    /\ prev.head < prev.size - 1
    /\ this = prev

\* C12: the maxSize setter throws TypeError for an argument that is not a
\* number and RangeError for NaN or a negative number, and leaves maxSize,
\* size, head and the stored values unchanged.
C12_BadSizeThrows ==
    (last.op = "setMaxSize") =>
        /\ last.args[1].type # "number" =>
               last.ret = Throw("TypeError") /\ this = prev
        /\ (last.args[1].type = "number"
            /\ (last.args[1].nan \/ last.args[1].n < 0)) =>
               last.ret = Throw("RangeError") /\ this = prev

\* a negative size is refused on a buffer that holds values
C12_Witness ==
    /\ last.op = "setMaxSize"
    /\ last.args[1] = Num(-1)
    /\ last.ret = Throw("RangeError")
    /\ size >= 2
    /\ this = prev

C14_HeadWithinCapacity ==
    IF maxSize = 0 THEN head = 0 ELSE 0 <= head /\ head < maxSize

\* what top, bottom and pop return on an object, and what its two iterations
\* yield
Observed(t) ==
    [pop |-> pop(t).ret,
     top |-> [i \in 0 .. MaxCap |-> top(t, Num(i))],
     bottom |-> [i \in 0 .. MaxCap |-> bottom(t, Num(i))],
     forward |-> iterate(t, FALSE, 0),
     reverse |-> iterate(t, TRUE, 0)]

\* C15: a buffer whose maxSize is 0 holds nothing: size = 0 and head = 0
\* after any pushes and pops, pop, top and bottom return undefined, and the
\* forward and reverse iterations yield no element.
C15_ZeroCapacityHoldsNothing ==
    (maxSize = 0) =>
        /\ size = 0
        /\ head = 0
        /\ pop(this).ret = Return(undefined)
        /\ \A i \in 0 .. MaxCap :
               /\ top(this, Num(i)) = Return(undefined)
               /\ bottom(this, Num(i)) = Return(undefined)
        /\ iterate(this, FALSE, 0) = <<>>
        /\ iterate(this, TRUE, 0) = <<>>

\* C16: clear() yields size = 0, head = 0, every slot of the array undefined
\* and maxSize unchanged: the object is the one new NanoBuffer(maxSize)
\* constructs, so every later call behaves as on a fresh empty buffer.
C16_ClearIsFresh ==
    (last.op = "clear") =>
        /\ size = 0
        /\ head = 0
        /\ maxSize = prev.maxSize
        /\ \A i \in Idx : Read(buffer, i) = undefined
        /\ this = NanoBuffer(Num(prev.maxSize), Undef).obj
        /\ Observed(this) = Observed(NanoBuffer(Num(prev.maxSize), Undef).obj)

\* the buffer cleared was full and wrapped
C16_Witness ==
    /\ last.op = "clear"
    /\ prev.size = prev.maxSize
    /\ prev.size >= 2
    /\ prev.head < prev.size - 1
    /\ \E i \in Idx : Read(prev.buffer, i) # undefined
    /\ size = 0


\* [top(0), ..., top(size - 1)] of an object
Tops(t) == [k \in 1 .. t.size |-> top(t, Num(k - 1)).value]

Reverse(s) == [k \in 1 .. Len(s) |-> s[Len(s) + 1 - k]]

\* C17: on an untouched buffer the default forward iteration yields exactly
\* size elements, the k-th being bottom(k), and then reports done with the
\* value undefined.
C17_ForwardYieldsBottoms ==
    /\ Len(iterate(this, FALSE, 0)) = size
    /\ iterate(this, FALSE, 0) = Logical(this)
    /\ finish(this, FALSE, iteratorStart(this, 0)) = [value |-> undefined, done |-> TRUE]

\* a full buffer whose window wraps and whose oldest and newest values differ
C17_Witness ==
    /\ size = maxSize
    /\ size >= 3
    /\ head < size - 1
    /\ iterate(this, FALSE, 0)[1] # iterate(this, FALSE, 0)[size]
    /\ \A k \in 1 .. size : iterate(this, FALSE, 0)[k] # undefined

\* C18: on an untouched buffer the reverse iteration from offset 0 is the
\* forward iteration from offset 0 reversed, and its k-th element is top(k).
C18_ReverseMirrorsForward ==
    /\ iterate(this, TRUE, 0) = Reverse(iterate(this, FALSE, 0))
    /\ iterate(this, TRUE, 0) = Tops(this)

\* C19: for 0 <= k <= size on an untouched buffer, the forward iteration
\* from offset k yields bottom(k), ..., bottom(size - 1) and the reverse
\* iteration from offset k yields top(k), ..., top(size - 1), size - k
\* elements each.
C19_IterationFromOffset ==
    \A k \in 0 .. size :
        /\ iterate(this, FALSE, k) = SubSeq(Logical(this), k + 1, size)
        /\ iterate(this, TRUE, k) = SubSeq(Tops(this), k + 1, size)

\* C20: an iteration, forward or reverse, started at an offset k >= size
\* (beyond maxSize too) reports done at its first next() and yields no value.
C20_OffsetBeyondSizeIsDone ==
    \A k \in size .. MaxCap + 2 : \A back \in BOOLEAN :
        LET r == next(this, back, iteratorStart(this, k))
        IN  /\ r.done
            /\ r.value = undefined
            /\ iterate(this, back, k) = <<>>

\* a buffer that holds values and has room: offsets size, maxSize and beyond
\* maxSize all lie past its values
C20_Witness ==
    /\ size >= 1
    /\ size < maxSize
    /\ Read(buffer, head) # undefined
    /\ next(this, FALSE, iteratorStart(this, size)).done
    /\ next(this, TRUE, iteratorStart(this, maxSize + 1)).done

\* C21: for 1 <= k <= size, on a full or a partly filled buffer, the forward
\* iteration started at offset -k yields exactly the last k values,
\* bottom(size - k), ..., bottom(size - 1), in that order.
C21_NegativeOffsetYieldsLastK ==
    \A k \in 1 .. size :
        /\ Len(iterate(this, FALSE, -k)) = k
        /\ iterate(this, FALSE, -k) = SubSeq(Logical(this), size - k + 1, size)

\* C22: top(offset) with a negative number never throws and returns
\* undefined, on an empty and on a non-empty buffer.
C22_TopNegativeIsUndefined ==
    \A n \in 1 .. MaxCap + 1 : top(this, Num(-n)) = Return(undefined)

\* C23: bottom(offset) with a negative number never throws and returns
\* undefined, on an empty and on a non-empty buffer: no wrap onto a stored
\* value.
C23_BottomNegativeIsUndefined ==
    \A n \in 1 .. MaxCap + 1 : bottom(this, Num(-n)) = Return(undefined)

\* a full buffer of defined values, where a wrap of -1 or of -maxSize would
\* land on a stored value
C23_Witness ==
    /\ size = maxSize
    /\ size >= 2
    /\ \A k \in 0 .. size - 1 : bottom(this, Num(k)).value # undefined
    /\ bottom(this, Num(-1)) = Return(undefined)
    /\ bottom(this, Num(-size)) = Return(undefined)

\* the index of a poke call that is a number other than NaN
NumericIndex(k) == k.type = "number" /\ ~k.nan

\* C24: for 0 <= k < size, poke(v, k) makes bottom(k) = v, which is
\* top(size - 1 - k) = v, and leaves size, head, maxSize and every other
\* logical slot as they were; with v undefined the slot becomes undefined
\* under the same frame.
C24_PokeSetsTheSlot ==
    (/\ last.op = "poke"
     /\ NumericIndex(last.args[2])
     /\ 0 <= last.args[2].n
     /\ last.args[2].n < prev.size)
    => LET v == last.args[1]
           k == last.args[2].n
       IN  /\ last.ret.threw = "none"
           /\ bottom(this, Num(k)) = Return(v)
           /\ top(this, Num(size - 1 - k)) = Return(v)
           /\ size = prev.size
           /\ head = prev.head
           /\ maxSize = prev.maxSize
           /\ \A j \in 0 .. size - 1 :
                  j # k => bottom(this, Num(j)) = bottom(prev, Num(j))

\* C25: poke(v, k) on an empty buffer, or with a number k >= size or k < 0,
\* changes nothing: it returns normally and size, head, maxSize and every
\* slot of the backing array are as before.
C25_PokeOutOfRangeIsNoOp ==
    (/\ last.op = "poke"
     /\ NumericIndex(last.args[2])
     /\ (prev.size = 0 \/ last.args[2].n >= prev.size \/ last.args[2].n < 0))
    => /\ last.ret = Return(undefined)
       /\ this = prev

\* a defined value poked just past the newest value of a buffer with room
\* whose slot 0 holds another value
C25_Witness ==
    /\ last.op = "poke"
    /\ last.args[1] = "a"
    /\ last.args[2] = Num(prev.size)
    /\ prev.size >= 1
    /\ prev.size < prev.maxSize
    /\ Read(prev.buffer, 0) = "b"
    /\ this = prev

\* C26: push(undefined) on a buffer with maxSize > 0 occupies a slot: head
\* advances as for any push (it stays when the buffer was empty), size is
\* min(size + 1, maxSize), top() is undefined, and the next pop() returns
\* undefined and decrements size.
C26_PushUndefinedOccupiesSlot ==
    (last.op = "push" /\ last.args[1] = undefined /\ prev.maxSize > 0)
    => /\ head = (IF prev.size = 0 THEN prev.head
                  ELSE IF prev.head + 1 >= prev.maxSize THEN 0
                  ELSE prev.head + 1)
       /\ size = Min(prev.size + 1, prev.maxSize)
       /\ maxSize = prev.maxSize
       /\ top(this, Num(0)) = Return(undefined)
       /\ pop(this).ret = Return(undefined)
       /\ pop(this).obj.size = size - 1

\* undefined pushed on top of a defined value, in a buffer with room
C26_Witness ==
    /\ last.op = "push"
    /\ last.args[1] = undefined
    /\ prev.size >= 1
    /\ prev.size < prev.maxSize
    /\ top(prev, Num(0)).value # undefined
    /\ size = prev.size + 1
    /\ top(this, Num(0)) = Return(undefined)

\* C27: full is true exactly when size = maxSize, so it is true for maxSize
\* 0, and a push on a full buffer leaves it full.
C27_FullStaysFull ==
    /\ full(this) <=> size = maxSize
    /\ maxSize = 0 /\ size = 0 => full(this)
    /\ (last.op = "push" /\ full(prev)) => full(this)

\* a push that evicted the oldest value of a full buffer of capacity >= 2
C27_Witness ==
    /\ last.op = "push"
    /\ full(prev)
    /\ prev.maxSize >= 2
    /\ head # prev.head
    /\ full(this)

\* a capacity argument the constructor must reject: not a number, NaN, or
\* negative
BadCapacity(c) == c.type # "number" \/ c.nan \/ c.n < 0

\* C28: construction throws, and creates no object, when the capacity is not
\* a number, is NaN or is negative, and when a numeric first argument comes
\* with any second argument; new NanoBuffer() has maxSize 10, size 0 and
\* head 0, and new NanoBuffer(undefined, n) is an empty buffer of maxSize n.
C28_ConstructionChecks ==
    last.op = "new" =>
        LET b == last.args[1]
            m == last.args[2]
            empty(n) == /\ last.ret.threw = "none"
                        /\ this = NB(EmptyArray, 0, n, 0)
        IN  /\ (m = Undef /\ b # Undef /\ b.type # "array" /\ BadCapacity(b))
                   => Failed
            /\ (b.type \in {"undefined", "array"} /\ m # Undef /\ BadCapacity(m))
                   => Failed
            /\ (b.type = "number" /\ m # Undef) => Failed
            /\ Failed => /\ last.ret.threw \in {"TypeError", "RangeError"}
                         /\ this = NoObject
            /\ (b = Undef /\ m = Undef) => empty(DEFAULT_MAX_SIZE)
            /\ (b = Undef /\ m.type = "number" /\ ~BadCapacity(m)) => empty(m.n)

\* new NanoBuffer(1, 2) has thrown a TypeError
C28_Witness ==
    /\ last = Call("new", <<Num(1), Num(2)>>, Throw("TypeError"))
    /\ Failed
    /\ this = NoObject

\* a number followed by a seed array
CapacityThenSeed ==
    /\ last.op = "new"
    /\ last.args[1].type = "number"
    /\ ~BadCapacity(last.args[1])
    /\ last.args[2].type = "array"

RECURSIVE pops(_, _)
pops(t, k) ==
    IF k = 0 THEN [obj |-> t, rets |-> <<>>]
    ELSE LET r == pop(t)
             rest == pops(r.obj, k - 1)
         IN  [obj |-> rest.obj, rets |-> <<r.ret>> \o rest.rets]

\* C30: with the logical sequence v0 .. v(s-1) and k <= s, k pops in a row
\* return v(s-1), v(s-2), ..., v(s-k) in that order, across the physical wrap
\* too, and leave exactly v0 .. v(s-k-1) with size s - k; the (s+1)-th pop
\* returns undefined.
C30_PopsReturnNewestFirst ==
    LET v == Logical(this)
        s == size
    IN  /\ \A k \in 0 .. s :
               LET p == pops(this, k)
               IN  /\ p.rets = [j \in 1 .. k |-> Return(v[s + 1 - j])]
                   /\ p.obj.size = s - k
                   /\ Logical(p.obj) = SubSeq(v, 1, s - k)
        /\ pops(this, s + 1).rets[s + 1] = Return(undefined)

\* the physical slots of the logical window [head - size + 1 .. head],
\* taken modulo maxSize
Window(t) ==
    IF t.maxSize = 0 THEN {}
    ELSE {(t.head - d) % t.maxSize : d \in 0 .. t.size - 1}

\* the start offsets tried, some of them beyond maxSize in magnitude
Offsets == -(MaxCap + 2) .. MaxCap + 2

\* C34: for every integer start offset, negative ones beyond -maxSize
\* included, and either direction, the iteration over an untouched buffer
\* ends, yields at most size elements, and reads each of them from a slot of
\* the logical window.
C34_IterationStaysInWindow ==
    \A k \in Offsets : \A back \in BOOLEAN :
        LET js == drainIndexes(this, back, iteratorStart(this, k))
        IN  /\ Len(js) <= size
            /\ \A n \in 1 .. Len(js) : js[n] \in Window(this)

\* C38: in every reachable state every slot of the backing array outside the
\* logical window is undefined: a popped, evicted or truncated value is not
\* kept.
C38_NothingKeptOutsideWindow ==
    \A i \in Idx : i \notin Window(this) => buffer[i] = undefined

\* C39: growing from capacity c to n > c and setting the capacity back to c
\* restores size and the logical sequence; shrinking to k and then to
\* m <= k gives the size and the logical sequence of shrinking to m at once.
C39_ResizesCompose ==
    /\ \A n \in maxSize + 1 .. MaxCap :
           LET grown == setMaxSize(this, Num(n)).obj
               back == setMaxSize(grown, Num(maxSize)).obj
           IN  /\ back.maxSize = maxSize
               /\ back.size = size
               /\ Logical(back) = Logical(this)
    /\ \A k \in 0 .. maxSize : \A m \in 0 .. k :
           LET twice == setMaxSize(setMaxSize(this, Num(k)).obj, Num(m)).obj
               once == setMaxSize(this, Num(m)).obj
           IN  /\ twice.maxSize = once.maxSize
               /\ twice.size = once.size
               /\ Logical(twice) = Logical(once)

\* a full buffer of three different-looking ends, which shrinks to 2 and
\* then to 1 and keeps its newest value
C39_Witness ==
    /\ size = 3
    /\ maxSize = 3
    /\ Logical(this)[1] # Logical(this)[3]
    /\ Logical(this)[3] # undefined
    /\ Logical(setMaxSize(setMaxSize(this, Num(2)).obj, Num(1)).obj)
           = <<Logical(this)[3]>>

\* the calls that only read
ReadOnly == {"top", "bottom", "get", "iterator", "next"}

\* C31: top(k), bottom(k), the size, maxSize, head and full accessors,
\* creating an iterator and every next() on it leave size, head, maxSize and
\* every slot of the backing array as they were, whatever the argument, one
\* that makes the call throw included.
C31_ReadsChangeNothing == last.op \in ReadOnly => this = prev

\* top(NaN) has thrown on a buffer holding a value
C31_Witness ==
    /\ last = Call("top", <<NaN>>, Throw("RangeError"))
    /\ size >= 1
    /\ Read(buffer, head) # undefined
    /\ this = prev

\* C32: with two iterators created from the same object, of any direction
\* and offset, and the object not changed, every interleaving of their
\* next() calls gives each of them the results it gives when run alone.
C32_IteratorsAreIndependent ==
    last.op = "next" =>
        LET it == its[last.args[1].n]
        IN  last.ret = nth(this, it.back, it.first, it.calls - 1)

\* two iterators of opposite directions two calls in each, the last call
\* returning a value
C32_Witness ==
    /\ last.op = "next"
    /\ its[1].calls = 2
    /\ its[2].calls = 2
    /\ its[1].back # its[2].back
    /\ its[1].first # its[2].first
    /\ ~last.ret.done
    /\ last.ret.value # undefined

C35_IterationIsBounded ==
    \A id \in Iterators :
        (its[id].live /\ its[id].nonneg /\ its[id].steady) => its[id].left >= 0

\* an iterator that has used up a budget it had, on a buffer that is full
\* again: its next() reports done
C35_Witness ==
    /\ last.op = "next"
    /\ last.ret.done
    /\ its[1].nonneg
    /\ its[1].steady
    /\ its[1].left = 0
    /\ its[1].i = maxSize + 1
    /\ maxSize >= 2
    /\ size = maxSize
    /\ Read(buffer, head) # undefined

\* C36: a buffer seeded from the array s with capacity c and an empty buffer
\* of capacity c into which the elements of s were pushed in order give the
\* same results after any calls of push, pop, poke, clear and the maxSize
\* setter made on both: the same size, top(i), bottom(i), pop() and forward
\* and reverse iteration (head may differ); an empty s with c > 0 and any s
\* with c = 0 included.
C36_SeededEqualsPushed ==
    /\ size = twin.size
    /\ maxSize = twin.maxSize
    /\ Observed(this) = Observed(twin)

\* C37: the object owns its backing array: after construction from the
\* caller's array, longer than the capacity or not, no push, pop, poke,
\* clear or maxSize change modifies that array, and an assignment the caller
\* makes to it later changes nothing the object returns.
C37_OwnsItsArray ==
    /\ last.op = "mutator" => ~caller.touched
    /\ last.op = "callerWrite" =>
           /\ size = prev.size
           /\ Observed(this) = Observed(prev)

=============================================================================
